---- MODULE Spec2Model ----
(***************************************************************************)
(* G-trees over the k-list inner set (src/src/lib.rs, src/src/klist.rs),   *)
(* and over the sorted-vector ControlSet (src/src/lib.rs).                  *)
(*                                                                         *)
(* Values.  Rust's sum types are records with a "tag":                     *)
(*   Option<T>   NoneV | Some(v)            [tag |-> "Some", val |-> v]    *)
(*   Set<S>      SetEmpty | SetNonEmpty(s)  [tag |-> "NonEmpty", s |-> s]  *)
(*   GTree<S>    GEmpty | GNonEmpty(node)   [tag, set, right, rank]        *)
(* A pair (item, left_subtree) is the tuple <<item, subtree>>.             *)
(* A k-list vertex is [data |-> [0..K-1 -> Option<pair>], next |-> Option] *)
(* Rc<T> is shared immutable ownership: it is modelled by the value.       *)
(* A panic (unreachable!, unwrap on None) is the value Abort; every caller *)
(* hands it on, as unwinding does.                                         *)
(***************************************************************************)
EXTENDS Integers, Sequences, FiniteSets, TLC

\* The bucket width: the const generic K of NonemptyReverseKList<K, I>.
K == 3

\* Bounds on the inputs the drivers draw.
MaxItem == 5
MaxRank == 2
\* The insert-only driver: the items and ranks of its list, and the list's length.
MaxPermItem == 4
MaxPermRank == 1
MaxPairs == 5
\* The k-list driver: its items.
MaxKItem == 7
\* zip3 driver: items 1..MaxZipItem
MaxZipItem == 3
\* usize is modelled UsizeBits wide
UsizeBits == 8

Items == 1..MaxItem
Ranks == 0..MaxRank
PermItems == 1..MaxPermItem
PermRanks == 0..MaxPermRank
KItems == 1..MaxKItem
ZipItems == 1..MaxZipItem
Idx == 0..(K - 1)

MinOf(S) == CHOOSE x \in S : \A y \in S : x <= y
MaxOf(S) == CHOOSE x \in S : \A y \in S : y <= x

NoneV == [tag |-> "None"]
Some(v) == [tag |-> "Some", val |-> v]
IsNone(o) == o.tag = "None"
IsSome(o) == o.tag = "Some"

SetEmpty == [tag |-> "Empty"]
SetNonEmpty(s) == [tag |-> "NonEmpty", s |-> s]

GEmpty == [tag |-> "Empty"]
GNonEmpty(set, right, rank) ==
    [tag |-> "NonEmpty", set |-> set, right |-> right, rank |-> rank]

Abort == [tag |-> "Abort"]
IsAbort(x) == ("tag" \in DOMAIN x) /\ x.tag = "Abort"

(***************************************************************************)
(* klist.rs                                                                *)
(***************************************************************************)

\* The comparison closure handed to binary_search_by in split and search.
CmpSlot(opt, key) ==
    IF IsNone(opt) THEN "Greater"
    ELSE IF key < opt.val[1] THEN "Less"
    ELSE IF key = opt.val[1] THEN "Equal"
    ELSE "Greater"

\* binary_search_by never finding the key: Err(i) in every case.
binary_search_by_never_ok(data, key) ==
    [ok |-> FALSE, i |-> Cardinality({i \in Idx : CmpSlot(data[i], key) = "Less"})]

\* slice::binary_search_by on self.data: Ok(i) at the slot that compares Equal,
\* otherwise Err(i) with i the number of slots that compare Less.
binary_search_by(data, key) ==
    IF \E i \in Idx : CmpSlot(data[i], key) = "Equal"
    THEN [ok |-> TRUE, i |-> CHOOSE i \in Idx : CmpSlot(data[i], key) = "Equal"]
    ELSE [ok |-> FALSE, i |-> Cardinality({i \in Idx : CmpSlot(data[i], key) = "Less"})]

\* singleton storing the item with an empty left subtree, not the one given.
singleton_without_subtree(item) ==
    [data |-> [i \in Idx |-> IF i = 0 THEN Some(<<item[1], GEmpty>>) ELSE NoneV],
     next |-> NoneV]

singleton(item) ==
    [data |-> [i \in Idx |-> IF i = 0 THEN Some(item) ELSE NoneV], next |-> NoneV]

\* remove_n_max moving the head vertex's items to the front without refilling
\* its high-index slots from the following vertices.
remove_n_max_without_refill(self, n) ==
    IF n = 0 \/ n > K THEN Abort
    ELSE IF n = K THEN [tag |-> "Ok", removed |-> self.data, rest |-> self.next]
    ELSE
      LET removed == [i \in Idx |-> IF i < n THEN self.data[i] ELSE NoneV]
          moved == [i \in Idx |-> IF i + n < K THEN self.data[i + n] ELSE NoneV]
      IN  [tag |-> "Ok", removed |-> removed,
           rest |-> IF IsNone(moved[0]) THEN NoneV
                    ELSE Some([data |-> moved, next |-> self.next])]

\* Remove the n greatest items: [removed |-> array, rest |-> Option<klist>].
RECURSIVE remove_n_max(_, _)
remove_n_max(self, n) ==
    IF n = 0 \/ n > K THEN Abort
    ELSE IF n = K THEN [tag |-> "Ok", removed |-> self.data, rest |-> self.next]
    ELSE
      LET removed == [i \in Idx |-> IF i < n THEN self.data[i] ELSE NoneV]
          moved == [i \in Idx |-> IF i + n < K THEN self.data[i + n] ELSE NoneV]
      IN  IF IsNone(self.next)
          THEN [tag |-> "Ok", removed |-> removed,
                rest |-> IF IsNone(moved[0]) THEN NoneV
                         ELSE Some([data |-> moved, next |-> NoneV])]
          ELSE
            LET rec == remove_n_max(self.next.val, n)
                new_data == [i \in Idx |-> IF i >= K - n
                                           THEN rec.removed[i - (K - n)]
                                           ELSE moved[i]]
            IN  [tag |-> "Ok", removed |-> removed,
                 rest |-> IF IsNone(new_data[0]) THEN NoneV
                          ELSE Some([data |-> new_data, next |-> rec.rest])]

RECURSIVE get_pair_by_inverted_index(_, _)
get_pair_by_inverted_index(self, index) ==
    IF index < K THEN self.data[index]
    ELSE IF IsSome(self.next)
         THEN get_pair_by_inverted_index(self.next.val, index - K)
         ELSE NoneV

RECURSIVE insert_min(_, _)
insert_min(self, new_min) ==
    IF IsSome(self.next)
    THEN [data |-> self.data, next |-> Some(insert_min(self.next.val, new_min))]
    ELSE IF \E i \in Idx : IsNone(self.data[i])
         THEN LET i == MinOf({j \in Idx : IsNone(self.data[j])})
              IN  [data |-> [self.data EXCEPT ![i] = Some(new_min)], next |-> NoneV]
         ELSE [data |-> self.data, next |-> Some(singleton(new_min))]

\* remove_min leaving the emptied last vertex in the list, not dropping it.
RECURSIVE remove_min_keeps_empty_vertex(_)
remove_min_keeps_empty_vertex(self) ==
    IF IsSome(self.next)
    THEN LET r == remove_min_keeps_empty_vertex(self.next.val)
         IN  IF IsAbort(r) THEN Abort
             ELSE [tag |-> "Ok", min |-> r.min,
                   rest |-> SetNonEmpty([data |-> self.data,
                                         next |-> Some(r.rest.s)])]
    ELSE IF \A i \in Idx : IsNone(self.data[i]) THEN Abort
    ELSE LET i == MaxOf({j \in Idx : IsSome(self.data[j])})
         IN  [tag |-> "Ok", min |-> self.data[i].val,
              rest |-> SetNonEmpty([data |-> [self.data EXCEPT ![i] = NoneV],
                                    next |-> NoneV])]

\* [min |-> pair, rest |-> Set<klist>]
RECURSIVE remove_min(_)
remove_min(self) ==
    IF IsSome(self.next)
    THEN LET r == remove_min(self.next.val)
         IN  IF IsAbort(r) THEN Abort
             ELSE [tag |-> "Ok", min |-> r.min,
                   rest |-> SetNonEmpty([data |-> self.data,
                                         next |-> IF r.rest.tag = "Empty" THEN NoneV
                                                  ELSE Some(r.rest.s)])]
    ELSE IF \A i \in Idx : IsNone(self.data[i]) THEN Abort
    ELSE LET i == MaxOf({j \in Idx : IsSome(self.data[j])})
         IN  IF i = 0
             THEN [tag |-> "Ok", min |-> self.data[i].val, rest |-> SetEmpty]
             ELSE [tag |-> "Ok", min |-> self.data[i].val,
                   rest |-> SetNonEmpty([data |-> [self.data EXCEPT ![i] = NoneV],
                                         next |-> NoneV])]

OptToSet(o) == IF IsNone(o) THEN SetEmpty ELSE SetNonEmpty(o.val)

\* PrefixVertex keeping slot i as well: the vertex still holds the key split at.
PrefixVertex_keeps_key(data, i) ==
    [data |-> [j \in Idx |-> IF j <= i THEN data[j] ELSE NoneV], next |-> NoneV]

\* PrefixVertex holding no item at all.
PrefixVertex_holds_nothing(data, i) ==
    [data |-> [j \in Idx |-> NoneV], next |-> NoneV]

\* The single vertex holding slots 0..i-1 of data (the "right return" of split).
PrefixVertex(data, i) ==
    [data |-> [j \in Idx |-> IF j < i THEN data[j] ELSE NoneV], next |-> NoneV]

\* [left |-> Set, mid |-> Option<GTree>, right |-> Set]
RECURSIVE split(_, _)
split(self, key) ==
    LET bs == binary_search_by(self.data, key)
        i == bs.i
    IN  IF bs.ok
        THEN LET right == IF i = 0 THEN SetEmpty
                          ELSE SetNonEmpty(PrefixVertex(self.data, i))
                 rem == remove_n_max(self, i + 1)
             IN  IF IsAbort(rem) \/ IsNone(self.data[i]) THEN Abort
                 ELSE [tag |-> "Ok", left |-> OptToSet(rem.rest),
                       mid |-> Some(self.data[i].val[2]), right |-> right]
        ELSE IF i = 0
        THEN [tag |-> "Ok", left |-> SetNonEmpty(self), mid |-> NoneV,
              right |-> SetEmpty]
        ELSE IF i = K
        THEN IF IsNone(self.next)
             THEN [tag |-> "Ok", left |-> SetEmpty, mid |-> NoneV,
                   right |-> SetNonEmpty(self)]
             ELSE LET rec == split(self.next.val, key)
                  IN  IF IsAbort(rec) THEN Abort
                      ELSE [tag |-> "Ok", left |-> rec.left, mid |-> rec.mid,
                            right |-> SetNonEmpty(
                               [data |-> self.data,
                                next |-> IF rec.right.tag = "Empty" THEN NoneV
                                         ELSE Some(rec.right.s)])]
        ELSE LET rem == remove_n_max(self, i)
             IN  IF IsAbort(rem) THEN Abort
                 ELSE [tag |-> "Ok", left |-> OptToSet(rem.rest), mid |-> NoneV,
                       right |-> SetNonEmpty(PrefixVertex(self.data, i))]

\* RightCount taking the last vertex of right for full: join never repacks.
RightCount_always_full(data) == K

\* The number of leading occupied slots (the counting loop of join).
RightCount(data) ==
    IF \E i \in Idx : IsNone(data[i])
    THEN MinOf({i \in Idx : IsNone(data[i])})
    ELSE K

\* join returning right alone: the items of left are lost.
join_drops_left(left, right) == right

RECURSIVE join(_, _)
join(left, right) ==
    IF IsSome(right.next)
    THEN LET rec == join(left, right.next.val)
         IN  IF IsAbort(rec) THEN Abort
             ELSE [data |-> right.data, next |-> Some(rec)]
    ELSE LET right_count == RightCount(right.data)
         IN  IF right_count = K
             THEN [data |-> right.data, next |-> Some(left)]
             ELSE LET to_move == K - right_count
                      rem == remove_n_max(left, to_move)
                  IN  IF IsAbort(rem) THEN Abort
                      ELSE [data |-> [i \in Idx |->
                                        IF i < right_count THEN right.data[i]
                                        ELSE rem.removed[i - right_count]],
                            next |-> rem.rest]

\* search looking in the first vertex only, never in self.next.
search_first_vertex_only(self, key) ==
    LET bs == binary_search_by(self.data, key)
        i == bs.i
    IN  IF bs.ok THEN self.data[i]
        ELSE IF i = 0 THEN NoneV
        ELSE self.data[i - 1]

\* Option<pair>: the pair with the least item >= key.
RECURSIVE search(_, _)
search(self, key) ==
    LET bs == binary_search_by(self.data, key)
        i == bs.i
    IN  IF bs.ok THEN self.data[i]
        ELSE IF i = 0 THEN NoneV
        ELSE IF i = K
        THEN IF IsNone(self.next) THEN self.data[i - 1]
             ELSE LET rec == search(self.next.val, key)
                  IN  IF IsNone(rec) THEN self.data[K - 1] ELSE rec
        ELSE self.data[i - 1]

\* NonemptySetMeta::len reaches its unreachable!(): the last vertex holds no item.
RECURSIVE len_unreachable(_)
len_unreachable(self) ==
    IF IsSome(self.next) THEN len_unreachable(self.next.val)
    ELSE \A i \in Idx : IsNone(self.data[i])

\* NonemptySetMeta::len, where it returns.
RECURSIVE len(_)
len(self) ==
    IF IsSome(self.next) THEN K + len(self.next.val)
    ELSE MaxOf({j \in Idx : IsSome(self.data[j])}) + 1

RECURSIVE item_slot_count(_)
item_slot_count(self) ==
    IF IsSome(self.next) THEN K + item_slot_count(self.next.val) ELSE K

\* usize arithmetic.  A result out of range panics in a build with overflow
\* checks (debug builds, fuzzing builds) and wraps in a build without them
\* (release builds): [tag |-> "Ok", val |-> n] or Abort.
UsizeModulus == 2 ^ UsizeBits

usize_add(a, b, overflow_checks) ==
    IF a + b < UsizeModulus THEN [tag |-> "Ok", val |-> a + b]
    ELSE IF overflow_checks THEN Abort
    ELSE [tag |-> "Ok", val |-> (a + b) % UsizeModulus]

usize_sub(a, b, overflow_checks) ==
    IF a >= b THEN [tag |-> "Ok", val |-> a - b]
    ELSE IF overflow_checks THEN Abort
    ELSE [tag |-> "Ok", val |-> (a - b) % UsizeModulus]

\* Index 0 denotes the least item: for an index below len, where the
\* arithmetic stays in range in every build.
get_pair_by_index(self, index) ==
    get_pair_by_inverted_index(self, len(self) - (1 + index))

\* get_pair_by_index for any index, in a build with or without overflow
\* checks: Option<pair> or Abort.
get_pair_by_index_built(self, index, overflow_checks) ==
    LET pos == usize_add(1, index, overflow_checks)
    IN  IF IsAbort(pos) THEN Abort
        ELSE LET at == usize_sub(len(self), pos.val, overflow_checks)
             IN  IF IsAbort(at) THEN Abort
                 ELSE get_pair_by_inverted_index(self, at.val)

\* NonemptySetMeta::get_max
get_max(self) == IF IsNone(self.data[0]) THEN Abort ELSE self.data[0].val[1]

\* NonemptySetMeta::get_min, where it returns (it is unreachable!() where len is).
RECURSIVE get_min(_)
get_min(self) ==
    IF IsSome(self.next) THEN get_min(self.next.val)
    ELSE self.data[MaxOf({j \in Idx : IsSome(self.data[j])})].val[1]

\* from_descending on a non-empty sequence of items.
RECURSIVE from_descending_upto(_, _)
from_descending_upto(items, n) ==
    IF n = 1 THEN singleton(<<items[1], GEmpty>>)
    ELSE insert_min(from_descending_upto(items, n - 1), <<items[n], GEmpty>>)

from_descending(items) == from_descending_upto(items, Len(items))

(***************************************************************************)
(* lib.rs                                                                  *)
(***************************************************************************)

\* Set::insert_min dropping the pairs of the set.
Set_insert_min_drops_set(s, new_min) == singleton(new_min)

\* Set::insert_min
Set_insert_min(s, new_min) ==
    IF s.tag = "Empty" THEN singleton(new_min) ELSE insert_min(s.s, new_min)

\* update_leftmost keeping the old leftmost subtree.
update_leftmost_keeps_old(node, leftmost) ==
    GNonEmpty(node.set, node.right, node.rank)

update_leftmost(node, leftmost) ==
    LET rm == remove_min(node.set)
    IN  IF IsAbort(rm) THEN Abort
        ELSE GNonEmpty(Set_insert_min(rm.rest, <<rm.min[1], leftmost>>),
                       node.right, node.rank)

\* update_right keeping the node's old right subtree.
update_right_keeps_old(node, right) == GNonEmpty(node.set, node.right, node.rank)

update_right(node, right) == GNonEmpty(node.set, right, node.rank)

\* lift returning the empty tree, not right, for an empty set.
lift_drops_right(s, right, rank) ==
    IF s.tag = "Empty" THEN GEmpty ELSE GNonEmpty(s.s, right, rank)

lift(s, right, rank) ==
    IF s.tag = "Empty" THEN right ELSE GNonEmpty(s.s, right, rank)

\* [left |-> GTree, right |-> GTree]
RECURSIVE unzip(_, _)
unzip(t, key) ==
    IF t.tag = "Empty" THEN [tag |-> "Ok", left |-> GEmpty, right |-> GEmpty]
    ELSE
      LET sp == split(t.set, key)
      IN  IF IsAbort(sp) THEN Abort
          ELSE IF IsSome(sp.mid)
          THEN [tag |-> "Ok", left |-> lift(sp.left, sp.mid.val, t.rank),
                right |-> lift(sp.right, t.right, t.rank)]
          ELSE IF sp.right.tag = "Empty"
          THEN LET rec == unzip(t.right, key)
               IN  IF IsAbort(rec) THEN Abort
                   ELSE [tag |-> "Ok", left |-> update_right(t, rec.left),
                         right |-> rec.right]
          ELSE LET rm == remove_min(sp.right.s)
               IN  IF IsAbort(rm) THEN Abort
                   ELSE LET rec == unzip(rm.min[2], key)
                        IN  IF IsAbort(rec) THEN Abort
                            ELSE [tag |-> "Ok",
                                  left |-> lift(sp.left, rec.left, t.rank),
                                  right |-> GNonEmpty(
                                     Set_insert_min(rm.rest, <<rm.min[1], rec.right>>),
                                     t.right, t.rank)]

RECURSIVE zip2(_, _)
zip2(left, right) ==
    IF left.tag = "Empty" THEN right
    ELSE IF right.tag = "Empty" THEN left
    ELSE IF left.rank < right.rank
    THEN LET rm == remove_min(right.set)
         IN  IF IsAbort(rm) THEN Abort
             ELSE LET zipped == zip2(left, rm.min[2])
                  IN  IF IsAbort(zipped) THEN Abort
                      ELSE update_leftmost(right, zipped)
    ELSE IF left.rank > right.rank
    THEN LET zipped == zip2(left.right, right)
         IN  IF IsAbort(zipped) THEN Abort ELSE update_right(left, zipped)
    ELSE LET rm == remove_min(right.set)
         IN  IF IsAbort(rm) THEN Abort
             ELSE LET zipped == zip2(left.right, rm.min[2])
                  IN  IF IsAbort(zipped) THEN Abort
                      ELSE LET right_set == Set_insert_min(rm.rest, <<rm.min[1], zipped>>)
                               joined == join(left.set, right_set)
                           IN  IF IsAbort(joined) THEN Abort
                               ELSE GNonEmpty(joined, right.right, left.rank)

\* zip3 hanging left and right under the new node without zipping them.
zip3_without_zip(left, item, rank, right) ==
    GNonEmpty(singleton(<<item, left>>), right, rank)

zip3(left, item, rank, right) ==
    LET mid == GNonEmpty(singleton(<<item, GEmpty>>), GEmpty, rank)
        lm == zip2(left, mid)
    IN  IF IsAbort(lm) THEN Abort ELSE zip2(lm, right)

\* insert zipping the new item into the tree as it is, without unzipping it.
insert_without_unzip(t, item, rank) == zip3(t, item, rank, GEmpty)

insert(t, item, rank) ==
    LET uz == unzip(t, item)
    IN  IF IsAbort(uz) THEN Abort ELSE zip3(uz.left, item, rank, uz.right)

\* delete zipping the two parts in the wrong order.
delete_zips_reversed(t, item) ==
    LET uz == unzip(t, item)
    IN  IF IsAbort(uz) THEN Abort ELSE zip2(uz.right, uz.left)

delete(t, item) ==
    LET uz == unzip(t, item)
    IN  IF IsAbort(uz) THEN Abort ELSE zip2(uz.left, uz.right)

\* has giving up, instead of descending to the right, when the node's set
\* holds no item >= key.
RECURSIVE has_ignores_right(_, _)
has_ignores_right(t, key) ==
    IF t.tag = "Empty" THEN FALSE
    ELSE LET yay == search(t.set, key)
         IN  IF IsNone(yay) THEN FALSE
             ELSE IF yay.val[1] = key THEN TRUE
             ELSE has_ignores_right(yay.val[2], key)

RECURSIVE has(_, _)
has(t, key) ==
    IF t.tag = "Empty" THEN FALSE
    ELSE LET yay == search(t.set, key)
         IN  IF IsNone(yay) THEN has(t.right, key)
             ELSE IF yay.val[1] = key THEN TRUE
             ELSE has(yay.val[2], key)

\* The stable sort of pairs_ascending: by item, ascending.
RECURSIVE InsertSorted(_, _)
InsertSorted(sorted, p) ==
    IF sorted = <<>> THEN <<p>>
    ELSE IF Head(sorted)[1] <= p[1]
         THEN <<Head(sorted)>> \o InsertSorted(Tail(sorted), p)
         ELSE <<p>> \o sorted

RECURSIVE sort_by_item(_)
sort_by_item(ps) ==
    IF ps = <<>> THEN <<>>
    ELSE InsertSorted(sort_by_item(SubSeq(ps, 1, Len(ps) - 1)), ps[Len(ps)])

\* The pairs of an inner set as a sequence, ascending by item.
pairs_ascending(s) ==
    LET n == len(s)
    IN  IF len_unreachable(s) THEN Abort
        ELSE IF \E i \in 0..(n - 1) : IsNone(get_pair_by_index(s, i)) THEN Abort
        ELSE sort_by_item([i \in 1..n |-> get_pair_by_index(s, i - 1).val])

EmptyStats ==
    [gnode_height |-> 0, gnode_count |-> 0, item_count |-> 0,
     item_slot_count |-> 0, rank |-> -1, is_heap |-> TRUE,
     least_item |-> NoneV, greatest_item |-> NoneV, is_search_tree |-> TRUE]

SumSeq(f, n) ==
    LET RECURSIVE go(_)
        go(i) == IF i = 0 THEN 0 ELSE f[i] + go(i - 1)
    IN  go(n)

\* gtree_stats_ without the rank distribution: the Stats of a tree.
RECURSIVE gtree_stats_(_)
gtree_stats_(t) ==
    IF t.tag = "Empty" THEN EmptyStats
    ELSE
      LET pairs == pairs_ascending(t.set)
          n == Len(pairs)
          item == [i \in 1..n |-> pairs[i][1]]
          pair_stats == [i \in 1..n |-> gtree_stats_(pairs[i][2])]
          right_stats == gtree_stats_(t.right)
          heap_broken ==
              \/ \E i \in 1..n : pair_stats[i].rank >= t.rank
              \/ \E i \in 1..n : ~pair_stats[i].is_heap
              \/ right_stats.rank > t.rank
              \/ /\ right_stats.rank = t.rank
                 /\ item_slot_count(t.set) > len(t.set)
              \/ ~right_stats.is_heap
          search_broken ==
              \/ /\ IsSome(right_stats.least_item)
                 /\ right_stats.least_item.val <= item[n]
              \/ \E i \in 1..n :
                    /\ IsSome(pair_stats[i].least_item)
                    /\ i > 1
                    /\ pair_stats[i].least_item.val <= item[i - 1]
              \/ \E i \in 1..n :
                    /\ IsSome(pair_stats[i].greatest_item)
                    /\ pair_stats[i].greatest_item.val >= item[i]
      IN  [gnode_height |->
              1 + MaxOf({right_stats.gnode_height}
                        \cup {pair_stats[i].gnode_height : i \in 1..n}),
           gnode_count |->
              right_stats.gnode_count + 1
              + SumSeq([i \in 1..n |-> pair_stats[i].gnode_count], n),
           item_count |->
              right_stats.item_count
              + SumSeq([i \in 1..n |-> 1 + pair_stats[i].item_count], n),
           item_slot_count |->
              right_stats.item_slot_count
              + SumSeq([i \in 1..n |-> pair_stats[i].item_slot_count], n)
              + item_slot_count(t.set),
           rank |-> t.rank,
           is_heap |-> IF heap_broken THEN FALSE ELSE right_stats.is_heap,
           least_item |->
              IF IsSome(pair_stats[1].least_item) THEN pair_stats[1].least_item
              ELSE Some(item[1]),
           greatest_item |->
              IF IsSome(right_stats.greatest_item) THEN right_stats.greatest_item
              ELSE Some(item[n]),
           is_search_tree |->
              IF search_broken THEN FALSE ELSE right_stats.is_search_tree]

\* The rank distribution counting the root's items only.
rank_distribution_root_only(t, ranks) ==
    IF t.tag = "Empty" THEN ranks
    ELSE (t.rank :> len(t.set)) @@ ranks

\* What gtree_stats_ leaves in rank_distribution (a BTreeMap: a function on
\* the ranks that have an entry): the node adds the number of its pairs to
\* the entry of its rank, then the left subtrees and the right subtree do.
RECURSIVE rank_distribution(_, _)
rank_distribution(t, ranks) ==
    IF t.tag = "Empty" THEN ranks
    ELSE
      LET pairs == pairs_ascending(t.set)
          n == Len(pairs)
          here == IF t.rank \in DOMAIN ranks
                  THEN [ranks EXCEPT ![t.rank] = @ + n]
                  ELSE (t.rank :> n) @@ ranks
          RECURSIVE lefts(_, _)
          lefts(i, acc) ==
              IF i > n THEN acc
              ELSE lefts(i + 1, rank_distribution(pairs[i][2], acc))
      IN  rank_distribution(t.right, lefts(1, here))

\* gtree_stats: the Stats and the rank distribution, from the empty map.
gtree_stats(t) == <<gtree_stats_(t), rank_distribution(t, [r \in {} |-> 0])>>

\* The tree-level search of spec.md 4.3 and 6 (lib.rs has no such function):
\* the descent of has, returning the item found, and none at an empty tree.
RECURSIVE tree_search(_, _)
tree_search(t, key) ==
    IF t.tag = "Empty" THEN NoneV
    ELSE LET found == search(t.set, key)
         IN  IF IsNone(found) THEN tree_search(t.right, key)
             ELSE IF found.val[1] = key THEN Some(found.val[1])
             ELSE tree_search(found.val[2], key)

(***************************************************************************)
(* lib.rs: ControlSet, the inner set kept as a Vec sorted in descending     *)
(* order.  ControlSet(v) is the record [vec |-> v], v the sequence of its  *)
(* pairs; Rust's index i is the sequence's index i + 1.                    *)
(***************************************************************************)
ControlSet(v) == [vec |-> v]

\* self.0.binary_search_by(|x| key.cmp(&x.0)): Ok(i) where the item is key,
\* otherwise Err(i) with i the number of items greater than key.
ControlSet_binary_search_by(v, key) ==
    IF \E j \in 1..Len(v) : v[j][1] = key
    THEN [ok |-> TRUE, i |-> (CHOOSE j \in 1..Len(v) : v[j][1] = key) - 1]
    ELSE [ok |-> FALSE, i |-> Cardinality({j \in 1..Len(v) : key < v[j][1]})]

ControlSet_singleton(item) == ControlSet(<<item>>)

ControlSet_insert_min(self, new_min) == ControlSet(Append(self.vec, new_min))

\* [min |-> pair, rest |-> Set<ControlSet>]
ControlSet_remove_min(self) ==
    LET n == Len(self.vec)
    IN  IF n = 0 THEN Abort
        ELSE [tag |-> "Ok", min |-> self.vec[n],
              rest |-> IF n - 1 = 0 THEN SetEmpty
                       ELSE SetNonEmpty(ControlSet(SubSeq(self.vec, 1, n - 1)))]

\* if v.len() == 0 { Set::Empty } else { Set::NonEmpty(ControlSet(v)) }
ControlSet_to_set(v) == IF Len(v) = 0 THEN SetEmpty ELSE SetNonEmpty(ControlSet(v))

\* [left |-> Set, mid |-> Option<GTree>, right |-> Set]
ControlSet_split(self, key) ==
    LET v == self.vec
        n == Len(v)
        bs == ControlSet_binary_search_by(v, key)
        i == bs.i
    IN  IF bs.ok
        THEN [tag |-> "Ok", left |-> ControlSet_to_set(SubSeq(v, i + 2, n)),
              mid |-> Some(v[i + 1][2]),
              right |-> ControlSet_to_set(SubSeq(v, 1, i))]
        ELSE [tag |-> "Ok", left |-> ControlSet_to_set(SubSeq(v, i + 1, n)),
              mid |-> NoneV,
              right |-> ControlSet_to_set(SubSeq(v, 1, i))]

\* ControlSet::join putting left's pairs in front of right's.
ControlSet_join_left_first(left, right) == ControlSet(left.vec \o right.vec)

ControlSet_join(left, right) == ControlSet(right.vec \o left.vec)

ControlSet_search(self, key) ==
    LET bs == ControlSet_binary_search_by(self.vec, key)
        i == bs.i
    IN  IF bs.ok THEN Some(self.vec[i + 1])
        ELSE IF i = 0 THEN NoneV
        ELSE Some(self.vec[i])

ControlSet_get_max(self) == self.vec[1][1]

ControlSet_get_min(self) == self.vec[Len(self.vec)][1]

ControlSet_len(self) == Len(self.vec)

\* self.0.get(self.0.len() - (index + 1)), for an index below len.
ControlSet_get_pair_by_index(self, index) ==
    LET at == Len(self.vec) - (index + 1)
    IN  IF at < Len(self.vec) THEN Some(self.vec[at + 1]) ELSE NoneV

\* self.0.get(self.0.len() - (index + 1)) for any index, in a build with or
\* without overflow checks: Option<pair> or Abort.
ControlSet_get_pair_by_index_built(self, index, overflow_checks) ==
    LET pos == usize_add(index, 1, overflow_checks)
    IN  IF IsAbort(pos) THEN Abort
        ELSE LET at == usize_sub(Len(self.vec), pos.val, overflow_checks)
             IN  IF IsAbort(at) THEN Abort
                 ELSE IF at.val < Len(self.vec) THEN Some(self.vec[at.val + 1])
                 ELSE NoneV

RECURSIVE ControlSet_from_descending_upto(_, _)
ControlSet_from_descending_upto(items, n) ==
    IF n = 1 THEN ControlSet_singleton(<<items[1], GEmpty>>)
    ELSE ControlSet_insert_min(ControlSet_from_descending_upto(items, n - 1),
                               <<items[n], GEmpty>>)

ControlSet_from_descending(items) ==
    ControlSet_from_descending_upto(items, Len(items))

ControlSet_item_slot_count(self) == ControlSet_len(self)

\* NonemptySetMeta::get_by_index, for the k-list and for the ControlSet.
get_by_index(self, index) ==
    LET p == get_pair_by_index(self, index)
    IN  IF IsNone(p) THEN NoneV ELSE Some(p.val[1])

ControlSet_get_by_index(self, index) ==
    LET p == ControlSet_get_pair_by_index(self, index)
    IN  IF IsNone(p) THEN NoneV ELSE Some(p.val[1])

\* sets_assert_eq(s1: k-list, s2: ControlSet) returns: none of its
\* assertions fails.
sets_assert_eq(s1, s2) ==
    /\ ~len_unreachable(s1)
    /\ len(s1) = ControlSet_len(s2)
    /\ \A i \in 0..(len(s1) - 1) :
          get_by_index(s1, i) = ControlSet_get_by_index(s2, i)

\* possibly_empty_sets_assert_eq(s1: Set<k-list>, s2: Set<ControlSet>) returns.
possibly_empty_sets_assert_eq(s1, s2) ==
    IF s1.tag = "Empty" /\ s2.tag = "Empty" THEN TRUE
    ELSE IF s1.tag = "NonEmpty" /\ s2.tag = "NonEmpty"
         THEN sets_assert_eq(s1.s, s2.s)
         ELSE FALSE

(***************************************************************************)
(* lib.rs instantiated with S = ControlSet: the generic functions of the   *)
(* tree, each call of a NonemptySet method bound to ControlSet's.          *)
(* update_right and lift call no method of S and serve both instances.     *)
(***************************************************************************)
ControlSet_Set_insert_min(s, new_min) ==
    IF s.tag = "Empty" THEN ControlSet_singleton(new_min)
    ELSE ControlSet_insert_min(s.s, new_min)

ControlSet_update_leftmost(node, leftmost) ==
    LET rm == ControlSet_remove_min(node.set)
    IN  IF IsAbort(rm) THEN Abort
        ELSE GNonEmpty(ControlSet_Set_insert_min(rm.rest, <<rm.min[1], leftmost>>),
                       node.right, node.rank)

RECURSIVE ControlSet_unzip(_, _)
ControlSet_unzip(t, key) ==
    IF t.tag = "Empty" THEN [tag |-> "Ok", left |-> GEmpty, right |-> GEmpty]
    ELSE
      LET sp == ControlSet_split(t.set, key)
      IN  IF IsSome(sp.mid)
          THEN [tag |-> "Ok", left |-> lift(sp.left, sp.mid.val, t.rank),
                right |-> lift(sp.right, t.right, t.rank)]
          ELSE IF sp.right.tag = "Empty"
          THEN LET rec == ControlSet_unzip(t.right, key)
               IN  IF IsAbort(rec) THEN Abort
                   ELSE [tag |-> "Ok", left |-> update_right(t, rec.left),
                         right |-> rec.right]
          ELSE LET rm == ControlSet_remove_min(sp.right.s)
               IN  IF IsAbort(rm) THEN Abort
                   ELSE LET rec == ControlSet_unzip(rm.min[2], key)
                        IN  IF IsAbort(rec) THEN Abort
                            ELSE [tag |-> "Ok",
                                  left |-> lift(sp.left, rec.left, t.rank),
                                  right |-> GNonEmpty(
                                     ControlSet_Set_insert_min(
                                        rm.rest, <<rm.min[1], rec.right>>),
                                     t.right, t.rank)]

RECURSIVE ControlSet_zip2(_, _)
ControlSet_zip2(left, right) ==
    IF left.tag = "Empty" THEN right
    ELSE IF right.tag = "Empty" THEN left
    ELSE IF left.rank < right.rank
    THEN LET rm == ControlSet_remove_min(right.set)
         IN  IF IsAbort(rm) THEN Abort
             ELSE LET zipped == ControlSet_zip2(left, rm.min[2])
                  IN  IF IsAbort(zipped) THEN Abort
                      ELSE ControlSet_update_leftmost(right, zipped)
    ELSE IF left.rank > right.rank
    THEN LET zipped == ControlSet_zip2(left.right, right)
         IN  IF IsAbort(zipped) THEN Abort ELSE update_right(left, zipped)
    ELSE LET rm == ControlSet_remove_min(right.set)
         IN  IF IsAbort(rm) THEN Abort
             ELSE LET zipped == ControlSet_zip2(left.right, rm.min[2])
                  IN  IF IsAbort(zipped) THEN Abort
                      ELSE LET right_set == ControlSet_Set_insert_min(
                                               rm.rest, <<rm.min[1], zipped>>)
                           IN  GNonEmpty(ControlSet_join(left.set, right_set),
                                         right.right, left.rank)

ControlSet_zip3(left, item, rank, right) ==
    LET mid == GNonEmpty(ControlSet_singleton(<<item, GEmpty>>), GEmpty, rank)
        lm == ControlSet_zip2(left, mid)
    IN  IF IsAbort(lm) THEN Abort ELSE ControlSet_zip2(lm, right)

ControlSet_insert(t, item, rank) ==
    LET uz == ControlSet_unzip(t, item)
    IN  IF IsAbort(uz) THEN Abort
        ELSE ControlSet_zip3(uz.left, item, rank, uz.right)

ControlSet_delete(t, item) ==
    LET uz == ControlSet_unzip(t, item)
    IN  IF IsAbort(uz) THEN Abort ELSE ControlSet_zip2(uz.left, uz.right)

RECURSIVE ControlSet_has(_, _)
ControlSet_has(t, key) ==
    IF t.tag = "Empty" THEN FALSE
    ELSE LET yay == ControlSet_search(t.set, key)
         IN  IF IsNone(yay) THEN ControlSet_has(t.right, key)
             ELSE IF yay.val[1] = key THEN TRUE
             ELSE ControlSet_has(yay.val[2], key)

\* pairs_ascending on a ControlSet.
ControlSet_pairs_ascending(s) ==
    LET n == ControlSet_len(s)
    IN  IF \E i \in 0..(n - 1) : IsNone(ControlSet_get_pair_by_index(s, i))
        THEN Abort
        ELSE sort_by_item([i \in 1..n |-> ControlSet_get_pair_by_index(s, i - 1).val])

(***************************************************************************)
(* create_set, one operation of the script at a time: the Option<Set<S>>   *)
(* that an operation returns for the Set its inner script returned.        *)
(***************************************************************************)
\* SetCreationOperation::Singleton(item)
create_set_Singleton(item) == Some(SetNonEmpty(singleton(<<item, GEmpty>>)))

ControlSet_create_set_Singleton(item) ==
    Some(SetNonEmpty(ControlSet_singleton(<<item, GEmpty>>)))

\* SetCreationOperation::InsertMin(_, item)
create_set_InsertMin(set_rec, item) ==
    IF set_rec.tag = "Empty" THEN Some(SetNonEmpty(singleton(<<item, GEmpty>>)))
    ELSE IF len_unreachable(set_rec.s) THEN Abort
    ELSE IF get_min(set_rec.s) <= item THEN NoneV
    ELSE Some(SetNonEmpty(insert_min(set_rec.s, <<item, GEmpty>>)))

ControlSet_create_set_InsertMin(set_rec, item) ==
    IF set_rec.tag = "Empty"
    THEN Some(SetNonEmpty(ControlSet_singleton(<<item, GEmpty>>)))
    ELSE IF ControlSet_get_min(set_rec.s) <= item THEN NoneV
    ELSE Some(SetNonEmpty(ControlSet_insert_min(set_rec.s, <<item, GEmpty>>)))

\* SetCreationOperation::RemoveMin(_)
create_set_RemoveMin(set_rec) ==
    IF set_rec.tag = "Empty" THEN Some(SetEmpty)
    ELSE LET rm == remove_min(set_rec.s)
         IN  IF IsAbort(rm) THEN Abort ELSE Some(rm.rest)

ControlSet_create_set_RemoveMin(set_rec) ==
    IF set_rec.tag = "Empty" THEN Some(SetEmpty)
    ELSE LET rm == ControlSet_remove_min(set_rec.s)
         IN  IF IsAbort(rm) THEN Abort ELSE Some(rm.rest)

\* create_set(data.clone()).unwrap()
unwrap(o) == IF IsAbort(o) \/ IsNone(o) THEN Abort ELSE o.val

(***************************************************************************)
(* The driver: create_tree applied to a TreeCreation script, one operation *)
(* per step, for S the k-list (tree) and for S = ControlSet (ctree),       *)
(* beside create_ctrl_tree's BTreeSet.  rk records the rank each *)
(* item of ctrl was last inserted with (-1: the item is not in ctrl).      *)
(***************************************************************************)
VARIABLES tree, ctree, ctrl, rk, bag, ka, kb, set_klist, set_ctrl

vars == <<tree, ctree, ctrl, rk, bag, ka, kb, set_klist, set_ctrl>>

Init ==
    /\ tree = GEmpty
    /\ ctree = GEmpty
    /\ ctrl = {}
    /\ rk = [i \in Items |-> -1]
    /\ bag = [p \in PermItems \X PermRanks |-> 0]
    /\ ka = SetEmpty
    /\ kb = SetEmpty
    /\ set_klist = SetEmpty
    /\ set_ctrl = SetEmpty

\* TreeCreation::Insert(_, item, rank)
Insert(item, rank) ==
    /\ ~IsAbort(tree)
    /\ ~IsAbort(ctree)
    /\ tree' = insert(tree, item, rank)
    /\ ctree' = ControlSet_insert(ctree, item, rank)
    /\ ctrl' = ctrl \cup {item}
    /\ rk' = [rk EXCEPT ![item] = rank]
    /\ UNCHANGED <<bag, ka, kb, set_klist, set_ctrl>>

\* TreeCreation::Remove(_, item)
Remove(item) ==
    /\ ~IsAbort(tree)
    /\ ~IsAbort(ctree)
    /\ tree' = delete(tree, item)
    /\ ctree' = ControlSet_delete(ctree, item)
    /\ ctrl' = ctrl \ {item}
    /\ rk' = [rk EXCEPT ![item] = -1]
    /\ UNCHANGED <<bag, ka, kb, set_klist, set_ctrl>>

Next ==
    \/ \E item \in Items, rank \in Ranks : Insert(item, rank)
    \/ \E item \in Items : Remove(item)

Spec == Init /\ [][Next]_vars

(***************************************************************************)
(* The insert-only driver: create_gtree inserts the pairs of a list one    *)
(* after the other.  bag counts how often each pair has been inserted.     *)
(***************************************************************************)
BagSize(b) ==
    LET RECURSIVE sum(_)
        sum(S) == IF S = {} THEN 0
                  ELSE LET p == CHOOSE q \in S : TRUE IN b[p] + sum(S \ {p})
    IN  sum(DOMAIN b)

PermInsert(item, rank) ==
    /\ ~IsAbort(tree)
    /\ BagSize(bag) < MaxPairs
    /\ tree' = insert(tree, item, rank)
    /\ bag' = [bag EXCEPT ![<<item, rank>>] = @ + 1]
    /\ UNCHANGED <<ctree, ctrl, rk, ka, kb, set_klist, set_ctrl>>

PermNext == \E item \in PermItems, rank \in PermRanks : PermInsert(item, rank)

PermSpec == Init /\ [][PermNext]_vars

(***************************************************************************)
(* The k-list driver: the operations of NonemptySet and from_descending,   *)
(* each called within its precondition, on two values ka and kb.  The left *)
(* subtrees of the pairs are empty, as in create_set and from_descending.  *)
(***************************************************************************)
\* The descending sequence of a non-empty set of items.
RECURSIVE Descending(_)
Descending(S) ==
    IF S = {} THEN <<>> ELSE <<MaxOf(S)>> \o Descending(S \ {MaxOf(S)})

KSingleton(x) ==
    /\ ka' = SetNonEmpty(singleton(<<x, GEmpty>>))
    /\ UNCHANGED <<tree, ctree, ctrl, rk, bag, kb, set_klist, set_ctrl>>

\* The fuzz targets build their list first: from_descending starts from no list.
KFromDescending(S) ==
    /\ ka.tag = "Empty"
    /\ ka' = SetNonEmpty(from_descending(Descending(S)))
    /\ UNCHANGED <<tree, ctree, ctrl, rk, bag, kb, set_klist, set_ctrl>>

KInsertMin(x) ==
    /\ ka.tag = "NonEmpty"
    /\ x < get_min(ka.s)
    /\ ka' = SetNonEmpty(insert_min(ka.s, <<x, GEmpty>>))
    /\ UNCHANGED <<tree, ctree, ctrl, rk, bag, kb, set_klist, set_ctrl>>

KRemoveMin ==
    /\ ka.tag = "NonEmpty"
    /\ LET rm == remove_min(ka.s)
       IN  ka' = IF IsAbort(rm) THEN Abort ELSE rm.rest
    /\ UNCHANGED <<tree, ctree, ctrl, rk, bag, kb, set_klist, set_ctrl>>

KSplit(key) ==
    /\ ka.tag = "NonEmpty"
    /\ LET sp == split(ka.s, key)
       IN  /\ ka' = IF IsAbort(sp) THEN Abort ELSE sp.left
           /\ kb' = IF IsAbort(sp) THEN Abort ELSE sp.right
    /\ UNCHANGED <<tree, ctree, ctrl, rk, bag, set_klist, set_ctrl>>

\* join(left = ka, right = kb)
KJoin ==
    /\ ka.tag = "NonEmpty"
    /\ kb.tag = "NonEmpty"
    /\ get_max(ka.s) < get_min(kb.s)
    /\ ka' = LET j == join(ka.s, kb.s) IN IF IsAbort(j) THEN Abort ELSE SetNonEmpty(j)
    /\ kb' = SetEmpty
    /\ UNCHANGED <<tree, ctree, ctrl, rk, bag, set_klist, set_ctrl>>

KSwap ==
    /\ ka.tag # "Abort"
    /\ kb.tag # "Abort"
    /\ ka' = kb
    /\ kb' = ka
    /\ UNCHANGED <<tree, ctree, ctrl, rk, bag, set_klist, set_ctrl>>

KNext ==
    \/ \E x \in KItems : KSingleton(x)
    \/ \E S \in (SUBSET KItems) \ {{}} : KFromDescending(S)
    \/ \E x \in KItems : KInsertMin(x)
    \/ KRemoveMin
    \/ \E key \in 0..(MaxKItem + 1) : KSplit(key)
    \/ KJoin
    \/ KSwap

KSpec == Init /\ [][KNext]_vars

(***************************************************************************)
(* The set-script driver (fuzz target klist): create_set applied to one    *)
(* SetCreationOperation script, an operation per step, for the ControlSet  *)
(* and for the k-list.  A script the ControlSet rejects (create_set        *)
(* returns None) is not compared, so it takes no step; the k-list's        *)
(* result is unwrapped.                                                    *)
(***************************************************************************)
SetSingleton(item) ==
    /\ ~IsAbort(set_klist)
    /\ set_ctrl' = unwrap(ControlSet_create_set_Singleton(item))
    /\ set_klist' = unwrap(create_set_Singleton(item))
    /\ UNCHANGED <<tree, ctree, ctrl, rk, bag, ka, kb>>

SetInsertMin(item) ==
    /\ ~IsAbort(set_klist)
    /\ IsSome(ControlSet_create_set_InsertMin(set_ctrl, item))
    /\ set_ctrl' = unwrap(ControlSet_create_set_InsertMin(set_ctrl, item))
    /\ set_klist' = unwrap(create_set_InsertMin(set_klist, item))
    /\ UNCHANGED <<tree, ctree, ctrl, rk, bag, ka, kb>>

SetRemoveMin ==
    /\ ~IsAbort(set_klist)
    /\ IsSome(ControlSet_create_set_RemoveMin(set_ctrl))
    /\ set_ctrl' = unwrap(ControlSet_create_set_RemoveMin(set_ctrl))
    /\ set_klist' = unwrap(create_set_RemoveMin(set_klist))
    /\ UNCHANGED <<tree, ctree, ctrl, rk, bag, ka, kb>>

SetNext ==
    \/ \E item \in KItems : SetSingleton(item)
    \/ \E item \in KItems : SetInsertMin(item)
    \/ SetRemoveMin

SetSpec == Init /\ [][SetNext]_vars

(***************************************************************************)
(* The split and join fuzz targets on lists of odd items: from_descending  *)
(* builds ka from a sorted, deduplicated list, split parts it into ka (the *)
(* lesser items) and kb (the greater items), join(lesser, greater) puts    *)
(* the parts together.                                                     *)
(***************************************************************************)
OddItems == {1, 3, 5, 7, 9}

OddFromDescending(S) ==
    /\ ka' = SetNonEmpty(from_descending(Descending(S)))
    /\ kb' = SetEmpty
    /\ UNCHANGED <<tree, ctree, ctrl, rk, bag, set_klist, set_ctrl>>

OddSplit(key) ==
    /\ ka.tag = "NonEmpty"
    /\ LET sp == split(ka.s, key)
       IN  /\ ka' = IF IsAbort(sp) THEN Abort ELSE sp.left
           /\ kb' = IF IsAbort(sp) THEN Abort ELSE sp.right
    /\ UNCHANGED <<tree, ctree, ctrl, rk, bag, set_klist, set_ctrl>>

\* join(&klist2, &klist1): klist2 holds the lesser items.
OddJoin ==
    /\ ka.tag = "NonEmpty"
    /\ kb.tag = "NonEmpty"
    /\ get_max(ka.s) < get_min(kb.s)
    /\ ka' = LET j == join(ka.s, kb.s) IN IF IsAbort(j) THEN Abort ELSE SetNonEmpty(j)
    /\ kb' = SetEmpty
    /\ UNCHANGED <<tree, ctree, ctrl, rk, bag, set_klist, set_ctrl>>

OddNext ==
    \/ \E S \in (SUBSET OddItems) \ {{}} : OddFromDescending(S)
    \/ \E key \in 0..10 : OddSplit(key)
    \/ OddJoin

OddSpec == Init /\ [][OddNext]_vars

(***************************************************************************)
(* The statistics driver (stats.rs): create_gtree inserts the pairs of a   *)
(* list one after the other, an item met again being inserted again with   *)
(* its new rank, and gtree_stats is taken of the tree.  ctrl and rk record *)
(* the items inserted and the rank each was last inserted with.            *)
(***************************************************************************)
CreateInsert(item, rank) ==
    /\ ~IsAbort(tree)
    /\ tree' = insert(tree, item, rank)
    /\ ctrl' = ctrl \cup {item}
    /\ rk' = [rk EXCEPT ![item] = rank]
    /\ UNCHANGED <<ctree, bag, ka, kb, set_klist, set_ctrl>>

StatsNext == \E item \in Items, rank \in Ranks : CreateInsert(item, rank)

StatsSpec == Init /\ [][StatsNext]_vars

(***************************************************************************)
(* The public zip3 called on any tree: an item of any rank is zipped to    *)
(* the tree as it stands, the tree on its left or on its right, whether or *)
(* not the items of the tree are below or above it.                        *)
(***************************************************************************)
\* The items a tree holds, the left subtrees' and the right subtree's included.
RECURSIVE ItemsIn(_)
ItemsIn(t) ==
    IF t.tag = "Empty" THEN {}
    ELSE LET ps == pairs_ascending(t.set)
         IN  UNION {{ps[i][1]} \cup ItemsIn(ps[i][2]) : i \in 1..Len(ps)}
             \cup ItemsIn(t.right)

\* zip3(&tree, item, rank, &GTree::Empty)
ZipToTheLeft(item, rank) ==
    /\ ~IsAbort(tree)
    /\ item \notin ItemsIn(tree)
    /\ tree' = zip3(tree, item, rank, GEmpty)
    /\ UNCHANGED <<ctree, ctrl, rk, bag, ka, kb, set_klist, set_ctrl>>

\* zip3(&GTree::Empty, item, rank, &tree)
ZipToTheRight(item, rank) ==
    /\ ~IsAbort(tree)
    /\ item \notin ItemsIn(tree)
    /\ tree' = zip3(GEmpty, item, rank, tree)
    /\ UNCHANGED <<ctree, ctrl, rk, bag, ka, kb, set_klist, set_ctrl>>

ZipNext ==
    \/ \E item \in ZipItems, rank \in Ranks : ZipToTheLeft(item, rank)
    \/ \E item \in ZipItems, rank \in Ranks : ZipToTheRight(item, rank)

ZipSpec == Init /\ [][ZipNext]_vars

(***************************************************************************)
(* Notions the properties are stated in.                                   *)
(***************************************************************************)

\* The keys queried: every item, and one key below and one above them all.
Keys == 0..(MaxItem + 1)

Range(f) == {f[i] : i \in DOMAIN f}

StrictlyAscending(q) == \A i \in 1..(Len(q) - 1) : q[i] < q[i + 1]

\* In-order traversal: per node, for each pair in ascending item order the
\* left subtree then the item, and finally the right subtree.
RECURSIVE InOrder(_)
InOrder(t) ==
    IF t.tag = "Empty" THEN <<>>
    ELSE LET ps == pairs_ascending(t.set)
             RECURSIVE walk(_)
             walk(i) == IF i > Len(ps) THEN InOrder(t.right)
                        ELSE InOrder(ps[i][2]) \o <<ps[i][1]>> \o walk(i + 1)
         IN  walk(1)

RankOf(t) == IF t.tag = "Empty" THEN -1 ELSE t.rank

\* The children of a node: the left subtrees of its pairs and its right subtree.
Children(t) == {p[2] : p \in Range(pairs_ascending(t.set))} \cup {t.right}

\* Every child's root rank is below the node's, or equal to it when the
\* node's inner set is at physical capacity; and so in every child.
RECURSIVE HeapOrdered(_)
HeapOrdered(t) ==
    \/ t.tag = "Empty"
    \/ \A c \in Children(t) :
          /\ \/ RankOf(c) < t.rank
             \/ RankOf(c) = t.rank /\ len(t.set) = item_slot_count(t.set)
          /\ HeapOrdered(c)

\* The tree of a mapping item -> rank (-1: absent): its items inserted in
\* ascending order into the empty tree.
RECURSIVE BuildUpTo(_, _)
BuildUpTo(m, i) ==
    IF i = 0 THEN GEmpty
    ELSE LET t == BuildUpTo(m, i - 1)
         IN  IF m[i] = -1 THEN t ELSE insert(t, i, m[i])

Build(m) == BuildUpTo(m, MaxItem)

\* A node of the tree holds an inner set of more than one vertex.
RECURSIVE HasLongSet(_)
HasLongSet(t) ==
    /\ t.tag = "NonEmpty"
    /\ \/ IsSome(t.set.next)
       \/ \E c \in Children(t) : HasLongSet(c)

RECURSIVE Height(_)
Height(t) ==
    IF t.tag = "Empty" THEN 0
    ELSE 1 + MaxOf({Height(c) : c \in Children(t)})

(***************************************************************************)
(* The properties.                                                         *)
(***************************************************************************)

\* C1: after any sequence of insert and delete from the empty tree, for every
\* key k, has(tree, k) is true if and only if k is in the reference set.
C1_HasAgreesWithCtrl ==
    /\ ~IsAbort(tree)
    /\ \A k \in Keys : has(tree, k) <=> (k \in ctrl)

C1_Witness ==
    /\ ~IsAbort(tree)
    /\ Height(tree) >= 2
    /\ HasLongSet(tree)
    /\ \E k \in Keys : has(tree, k)
    /\ \E k \in Keys : ~has(tree, k)

\* C2: the in-order traversal of the tree is strictly ascending and lists
\* exactly the items of the reference set.
C2_InOrderIsCtrl ==
    /\ ~IsAbort(tree)
    /\ StrictlyAscending(InOrder(tree))
    /\ Range(InOrder(tree)) = ctrl

C2_Witness ==
    /\ ~IsAbort(tree)
    /\ Height(tree) >= 2
    /\ Len(InOrder(tree)) >= 4
    /\ tree.right.tag = "NonEmpty"
    /\ \E c \in Children(tree) \ {tree.right} : c.tag = "NonEmpty"

\* C3: in every reachable tree every child's root rank is less than its
\* parent's rank, an equal rank being allowed only under a parent whose inner
\* set is at physical capacity; and gtree_stats reports is_heap = true.
C3_HeapOrder ==
    /\ ~IsAbort(tree)
    /\ HeapOrdered(tree)
    /\ gtree_stats_(tree).is_heap

C3_Witness ==
    /\ ~IsAbort(tree)
    /\ Height(tree) >= 2
    /\ \E i, j \in Items : i < j /\ rk[i] >= 0 /\ rk[j] > rk[i]
    /\ \E i, j \in Items : i < j /\ rk[j] >= 0 /\ rk[i] > rk[j]

\* C4: the tree is a function of the final mapping item -> rank alone: every
\* sequence of inserts and deletes that ends with the mapping rk ends with the
\* tree that inserting rk's items in ascending order builds.
C4_HistoryIndependent == tree = Build(rk)

C4_Witness ==
    /\ HasLongSet(tree)
    /\ \E i \in Items : rk[i] = -1 /\ MinOf(ctrl) < i /\ i < MaxOf(ctrl)
    /\ tree = Build(rk)

\* The tree the insert-only driver builds from the pairs of a bag taken in
\* ascending order of (item, rank), each as often as the bag holds it.
RECURSIVE InsertTimes(_, _, _, _)
InsertTimes(t, item, rank, n) ==
    IF n = 0 THEN t ELSE InsertTimes(insert(t, item, rank), item, rank, n - 1)

RECURSIVE BuildSortedUpTo(_, _, _)
BuildSortedUpTo(b, item, rank) ==
    IF item = 0 THEN GEmpty
    ELSE LET before == IF rank = 0
                       THEN BuildSortedUpTo(b, item - 1, MaxPermRank)
                       ELSE BuildSortedUpTo(b, item, rank - 1)
         IN  InsertTimes(before, item, rank, b[<<item, rank>>])

BuildSorted(b) == BuildSortedUpTo(b, MaxPermItem, MaxPermRank)

\* No item of the bag occurs with two different ranks.
OneRankPerItem(b) ==
    \A i \in PermItems : \A r1, r2 \in PermRanks :
        (b[<<i, r1>>] > 0 /\ b[<<i, r2>>] > 0) => r1 = r2

\* C5 as stated: for any two permutations of the same multiset of (item, rank)
\* pairs, inserting them into the empty tree yields equal trees: whatever the
\* order the pairs of bag were inserted in, the tree is the one their
\* ascending order builds.
C5_AnyMultiset == tree = BuildSorted(bag)

\* C5, amended: the same for every multiset in which no item occurs with two
\* different ranks.
C5_PermutationsAgree == OneRankPerItem(bag) => tree = BuildSorted(bag)

C5_Witness ==
    /\ OneRankPerItem(bag)
    /\ BagSize(bag) = MaxPairs
    /\ \E p \in DOMAIN bag : bag[p] >= 2
    /\ Cardinality({p \in DOMAIN bag : bag[p] > 0}) >= 3
    /\ Height(tree) >= 2
    /\ tree = BuildSorted(bag)

\* C6: for every reachable tree, every item x not in it and every rank r,
\* delete(insert(tree, x, r), x) is structurally equal to the tree.
C6_InsertDeleteInverse ==
    \A x \in Items \ ctrl : \A r \in Ranks :
        delete(insert(tree, x, r), x) = tree

C6_Witness ==
    /\ Height(tree) >= 2
    /\ \E x \in Items \ ctrl : \E r \in Ranks :
          /\ MinOf(ctrl) < x
          /\ x < MaxOf(ctrl)
          /\ ~IsAbort(insert(tree, x, r))
          /\ HasLongSet(insert(tree, x, r))
          /\ delete(insert(tree, x, r), x) = tree

\* C7: for every reachable tree and every key x not in it, delete(tree, x)
\* does not abort and is structurally equal to the tree.
C7_DeleteAbsentIsNoOp ==
    \A x \in Keys \ ctrl :
        /\ ~IsAbort(delete(tree, x))
        /\ delete(tree, x) = tree

C7_Witness ==
    /\ HasLongSet(tree)
    /\ \E x \in Items \ ctrl :
          /\ MinOf(ctrl) < x
          /\ x < MaxOf(ctrl)
          /\ unzip(tree, x).left.tag = "NonEmpty"
          /\ unzip(tree, x).right.tag = "NonEmpty"
          /\ delete(tree, x) = tree

\* The pairs <<item, rank>> of a tree: each item with the rank of its node.
RECURSIVE ItemRanks(_)
ItemRanks(t) ==
    IF t.tag = "Empty" THEN {}
    ELSE {<<p[1], t.rank>> : p \in Range(pairs_ascending(t.set))}
         \cup UNION {ItemRanks(c) : c \in Children(t)}

\* C8: for every reachable tree that contains item x at rank r,
\* insert(tree, x, r) is structurally equal to the tree; and for every item
\* and rank, inserting the pair twice gives the tree that inserting it once gives.
C8_InsertIdempotent ==
    /\ \A p \in ItemRanks(tree) : insert(tree, p[1], p[2]) = tree
    /\ \A x \in Items : \A r \in Ranks :
          insert(insert(tree, x, r), x, r) = insert(tree, x, r)

C8_Witness ==
    /\ HasLongSet(tree)
    /\ Height(tree) >= 2
    /\ Cardinality(ItemRanks(tree)) >= 4
    /\ \A p \in ItemRanks(tree) : insert(tree, p[1], p[2]) = tree
    /\ \E x \in Items : \E r \in Ranks :
          /\ insert(tree, x, r) # tree
          /\ insert(insert(tree, x, r), x, r) = insert(tree, x, r)

\* The least item of S that is >= k, or none.
LeastGE(S, k) ==
    IF \E x \in S : x >= k THEN Some(MinOf({x \in S : x >= k})) ELSE NoneV

\* C9: for every reachable tree and every key k, the tree-level search
\* returns the least item of the reference set that is >= k, or none when
\* there is no such item.  (The descent returns none for every key that is not
\* in the set: after the inserts (10, 2), (20, 0), (5, 1) it answers the key 6
\* with none, not 10.)
C9_SearchIsLeastGE ==
    \A k \in Keys : tree_search(tree, k) = LeastGE(ctrl, k)

\* The items of a k-list in storage order, and its vertices in order.
RECURSIVE StoredItems(_)
StoredItems(kl) ==
    LET here == [i \in 1..Cardinality({j \in Idx : IsSome(kl.data[j])}) |->
                    kl.data[MinOf({j \in Idx :
                        /\ IsSome(kl.data[j])
                        /\ Cardinality({h \in Idx : h < j /\ IsSome(kl.data[h])}) = i - 1})].val[1]]
    IN  IF IsSome(kl.next) THEN here \o StoredItems(kl.next.val) ELSE here

StrictlyDescending(q) == \A i \in 1..(Len(q) - 1) : q[i] > q[i + 1]

\* Every vertex but the last is full; the last has slot 0 occupied and its
\* empty slots at the high-index end.
RECURSIVE BucketsPacked(_)
BucketsPacked(kl) ==
    IF IsSome(kl.next)
    THEN /\ \A i \in Idx : IsSome(kl.data[i])
         /\ BucketsPacked(kl.next.val)
    ELSE /\ IsSome(kl.data[0])
         /\ \A i, j \in Idx : (i < j /\ IsNone(kl.data[i])) => IsNone(kl.data[j])

KListValid(v) ==
    /\ v.tag # "Abort"
    /\ v.tag = "NonEmpty" =>
          /\ BucketsPacked(v.s)
          /\ StrictlyDescending(StoredItems(v.s))

\* C10: every k-list produced by singleton, from_descending, insert_min,
\* remove_min, split and join within their preconditions has every vertex but
\* the last full, the last with slot 0 occupied and its empty slots at the
\* high-index end, and its items strictly descending over the whole list.
C10_KListInvariant == KListValid(ka) /\ KListValid(kb)

C10_Witness ==
    /\ ka.tag = "NonEmpty"
    /\ kb.tag = "NonEmpty"
    /\ IsSome(ka.s.next)
    /\ IsNone(ka.s.next.val.data[K - 1])
    /\ IsNone(kb.s.data[K - 1])
    /\ get_max(ka.s) < get_min(kb.s)
    /\ KListValid(ka) /\ KListValid(kb)

(***************************************************************************)
(* The k-list against the sorted-vector oracle.                            *)
(***************************************************************************)

\* The keys handed to the k-list: every item, one key below and one above.
KKeys == 0..(MaxKItem + 1)

ItemsOf(kl) == Range(StoredItems(kl))

\* The oracle of the fuzz targets: the ControlSet of a set of items, the
\* items in descending order, each with the empty left subtree.
OracleVec(S) == [i \in 1..Cardinality(S) |-> <<Descending(S)[i], GEmpty>>]

\* A tree that tells the item it hangs under: a leaf of rank x.
Leaf(x) == GNonEmpty(singleton(<<0, GEmpty>>), GEmpty, x)

\* The k-list with every pair's left subtree replaced by the leaf of its item.
RECURSIVE WithSubtrees(_)
WithSubtrees(kl) ==
    [data |-> [i \in Idx |->
                 IF IsNone(kl.data[i]) THEN NoneV
                 ELSE Some(<<kl.data[i].val[1], Leaf(kl.data[i].val[1])>>)],
     next |-> IF IsNone(kl.next) THEN NoneV ELSE Some(WithSubtrees(kl.next.val))]

\* split(key), the key put back as the new minimum of the right part when the
\* middle is present, then the non-empty parts joined: a Set, or Abort.
Reassemble(s, key) ==
    LET sp == split(s, key)
    IN  IF IsAbort(sp) THEN Abort
        ELSE
          LET r == IF IsSome(sp.mid)
                   THEN SetNonEmpty(Set_insert_min(sp.right, <<key, sp.mid.val>>))
                   ELSE sp.right
          IN  IF sp.left.tag = "Empty" THEN r
              ELSE IF r.tag = "Empty" THEN sp.left
              ELSE LET j == join(sp.left.s, r.s)
                   IN  IF IsAbort(j) THEN Abort ELSE SetNonEmpty(j)

RoundTrips(v) ==
    v.tag = "NonEmpty" =>
        \A key \in KKeys :
            /\ Reassemble(v.s, key) = v
            /\ Reassemble(WithSubtrees(v.s), key) = SetNonEmpty(WithSubtrees(v.s))

\* C11: for every valid non-empty k-list s and every key k, splitting s at k,
\* putting k back as the new minimum of the right part when the middle is
\* present, and joining the non-empty parts gives a k-list equal to s vertex
\* for vertex and slot for slot, left subtrees included.
C11_SplitJoinRoundTrip == RoundTrips(ka)

C11_Witness ==
    /\ ka.tag = "NonEmpty"
    /\ IsSome(ka.s.next)
    /\ IsNone(ka.s.next.val.data[K - 1])
    /\ \E key \in ItemsOf(ka.s) :
          /\ split(ka.s, key).left.tag = "NonEmpty"
          /\ split(ka.s, key).right.tag = "NonEmpty"
          /\ IsSome(split(WithSubtrees(ka.s), key).mid)
          /\ split(WithSubtrees(ka.s), key).mid.val = Leaf(key)
          /\ Reassemble(WithSubtrees(ka.s), key) = SetNonEmpty(WithSubtrees(ka.s))
    /\ \E key \in KKeys \ ItemsOf(ka.s) :
          /\ split(ka.s, key).left.tag = "NonEmpty"
          /\ split(ka.s, key).right.tag = "NonEmpty"
          /\ IsSome(split(ka.s, key).left.s.next)
          /\ Reassemble(ka.s, key) = ka

\* split(key) on s agrees with the oracle's parts (split.rs).
SplitAgrees(s, key) ==
    LET sp == split(s, key)
        S == ItemsOf(s)
        below == {x \in S : x < key}
        above == {x \in S : x > key}
    IN  /\ ~IsAbort(sp)
        /\ possibly_empty_sets_assert_eq(sp.left, ControlSet_to_set(OracleVec(below)))
        /\ possibly_empty_sets_assert_eq(sp.right, ControlSet_to_set(OracleVec(above)))
        /\ sp.left.tag = "NonEmpty" => ItemsOf(sp.left.s) = below
        /\ sp.right.tag = "NonEmpty" => ItemsOf(sp.right.s) = above
        /\ (sp.left.tag = "Empty") <=> (below = {})
        /\ (sp.right.tag = "Empty") <=> (above = {})
        /\ IsSome(sp.mid) <=> (key \in S)

BuiltByFromDescending(v) ==
    /\ v.tag = "NonEmpty"
    /\ v.s = from_descending(Descending(ItemsOf(v.s)))

\* C12: for every non-empty k-list built by from_descending from distinct
\* items and every key, split(key) returns a left part with exactly the items
\* below the key and a right part with exactly the items above it (Set::Empty
\* for a part without items), each with the len and the item at every index
\* of the oracle's part, and a middle that is Some exactly when the key is in
\* the list.
C12_SplitMatchesOracle ==
    BuiltByFromDescending(ka) => \A key \in KKeys : SplitAgrees(ka.s, key)

C12_Witness ==
    /\ BuiltByFromDescending(ka)
    /\ IsSome(ka.s.next)
    /\ IsNone(ka.s.next.val.data[K - 1])
    /\ \E key \in ItemsOf(ka.s) :
          /\ split(ka.s, key).left.tag = "NonEmpty"
          /\ split(ka.s, key).right.tag = "NonEmpty"
          /\ SplitAgrees(ka.s, key)
    /\ \E key \in KKeys \ ItemsOf(ka.s) :
          /\ split(ka.s, key).left.tag = "NonEmpty"
          /\ split(ka.s, key).right.tag = "NonEmpty"
          /\ IsSome(split(ka.s, key).right.s.next)
          /\ SplitAgrees(ka.s, key)
    /\ \E key \in KKeys : split(ka.s, key).left.tag = "Empty"
    /\ \E key \in KKeys : split(ka.s, key).right.tag = "Empty"

\* join.rs: ka holds the smaller part (klist2), kb the greater part (klist1).
JoinInputs ==
    /\ BuiltByFromDescending(ka)
    /\ BuiltByFromDescending(kb)
    /\ get_max(ka.s) < get_min(kb.s)

\* C13: for a strictly descending sequence of distinct items cut into a
\* non-empty greater part and a non-empty smaller part, join(left =
\* from_descending(smaller), right = from_descending(greater)) has the len and
\* the item at every index of the whole sequence's oracle, and only its last
\* vertex may be non-full.
C13_JoinMatchesOracle ==
    JoinInputs =>
        LET j == join(ka.s, kb.s)
        IN  /\ ~IsAbort(j)
            /\ sets_assert_eq(j, ControlSet(OracleVec(ItemsOf(ka.s) \cup ItemsOf(kb.s))))
            /\ BucketsPacked(j)

C13_Witness ==
    /\ JoinInputs
    /\ IsSome(ka.s.next)
    /\ IsNone(ka.s.next.val.data[K - 1])
    /\ IsSome(kb.s.data[1])
    /\ IsNone(kb.s.data[K - 1])
    /\ IsSome(join(ka.s, kb.s).next)
    /\ sets_assert_eq(join(ka.s, kb.s),
                      ControlSet(OracleVec(ItemsOf(ka.s) \cup ItemsOf(kb.s))))

\* The item of an optional pair.
ItemOf(o) == IF IsNone(o) THEN NoneV ELSE Some(o.val[1])

SearchAgrees(s, key) ==
    LET S == ItemsOf(s)
        found == search(s, key)
        ctrl_found == ControlSet_search(ControlSet(OracleVec(S)), key)
        decorated == search(WithSubtrees(s), key)
    IN  /\ ItemOf(found) = LeastGE(S, key)
        /\ IsNone(found) <=> (key > MaxOf(S))
        /\ ItemOf(found) = ItemOf(ctrl_found)
        /\ IsSome(found) => decorated = Some(<<found.val[1], Leaf(found.val[1])>>)

\* C14: for every valid k-list, whatever its number of vertices and the fill
\* of its last vertex, and every key, search(key) returns the pair whose item
\* is the least item >= key, and none exactly when the key is greater than
\* every item; the item is the one the ControlSet's search returns on the
\* same items.
C14_SearchIsLeastGE ==
    ka.tag = "NonEmpty" => \A key \in KKeys : SearchAgrees(ka.s, key)

C14_Witness ==
    /\ ka.tag = "NonEmpty"
    /\ IsSome(ka.s.next)
    /\ IsSome(ka.s.next.val.next)
    /\ IsNone(ka.s.next.val.next.val.data[K - 1])
    /\ \E key \in KKeys \ ItemsOf(ka.s) :
          /\ IsSome(search(ka.s, key))
          /\ search(ka.s, key).val[1] = get_min(ka.s)
    /\ \E key \in ItemsOf(ka.s) :
          /\ IsSome(search(ka.s, key))
          /\ search(ka.s, key) = ka.s.next.val.data[0]
    /\ \E key \in KKeys : IsNone(search(ka.s, key))
    /\ \A key \in KKeys : SearchAgrees(ka.s, key)

\* remove_min on a k-list removes the least item, and removing the only item
\* gives the empty set.
RemoveMinRemovesLeast(s) ==
    LET S == ItemsOf(s)
        rm == remove_min(s)
    IN  /\ ~IsAbort(rm)
        /\ rm.min[1] = MinOf(S)
        /\ IF Cardinality(S) = 1 THEN rm.rest = SetEmpty
           ELSE /\ rm.rest.tag = "NonEmpty"
                /\ ItemsOf(rm.rest.s) = S \ {MinOf(S)}

\* C15: after every script of Singleton / InsertMin / RemoveMin operations
\* that the ControlSet accepts, the k-list and the ControlSet are both empty,
\* or both non-empty with equal len and the same item at every index; and
\* remove_min on the k-list removes the least item, the only item leaving
\* the empty set.
C15_ScriptsAgree ==
    /\ ~IsAbort(set_klist)
    /\ possibly_empty_sets_assert_eq(set_klist, set_ctrl)
    /\ set_klist.tag = "NonEmpty" => RemoveMinRemovesLeast(set_klist.s)

C15_Witness ==
    /\ set_klist.tag = "NonEmpty"
    /\ set_ctrl.tag = "NonEmpty"
    /\ IsSome(set_klist.s.next)
    /\ IsNone(set_klist.s.next.val.data[1])
    /\ ControlSet_len(set_ctrl.s) = K + 1
    /\ \E x \in KItems : x < get_min(set_klist.s)
    /\ \E x \in KItems : x > get_min(set_klist.s) /\ x \notin ItemsOf(set_klist.s)
    /\ sets_assert_eq(set_klist.s, set_ctrl.s)
    /\ remove_min(set_klist.s).rest = SetNonEmpty([set_klist.s EXCEPT !.next = NoneV])

(***************************************************************************)
(* unzip and zip2 on the trees the driver reaches.                         *)
(***************************************************************************)
SearchOrdered(t) == StrictlyAscending(InOrder(t))

UnzipSplits(t, key) ==
    LET uz == unzip(t, key)
    IN  /\ ~IsAbort(uz)
        /\ ItemRanks(uz.left) = {p \in ItemRanks(t) : p[1] < key}
        /\ ItemRanks(uz.right) = {p \in ItemRanks(t) : p[1] > key}
        /\ SearchOrdered(uz.left)
        /\ SearchOrdered(uz.right)
        /\ HeapOrdered(uz.left)
        /\ HeapOrdered(uz.right)

\* C16: for every reachable tree (search-ordered and heap-ordered) and every
\* key, present or absent, unzip returns (L, R) with L holding exactly the
\* items below the key and R exactly the items above it, the key in
\* neither, every item at its rank, and L and R search-ordered and
\* heap-ordered.
C16_UnzipPartitions ==
    /\ ~IsAbort(tree)
    /\ \A key \in Keys : UnzipSplits(tree, key)

C16_Witness ==
    /\ ~IsAbort(tree)
    /\ Height(tree) >= 2
    /\ \E key \in ctrl :
          /\ unzip(tree, key).left.tag = "NonEmpty"
          /\ unzip(tree, key).right.tag = "NonEmpty"
          /\ UnzipSplits(tree, key)
    /\ \E key \in Items \ ctrl :
          /\ unzip(tree, key).left.tag = "NonEmpty"
          /\ unzip(tree, key).right.tag = "NonEmpty"
          /\ Height(unzip(tree, key).right) >= 2
          /\ UnzipSplits(tree, key)

ZipJoins(left, right) ==
    LET z == zip2(left, right)
    IN  /\ ~IsAbort(z)
        /\ ItemRanks(z) = ItemRanks(left) \cup ItemRanks(right)
        /\ SearchOrdered(z)
        /\ HeapOrdered(z)
        /\ RankOf(z) = MaxOf({RankOf(left), RankOf(right)})
        /\ left.tag = "Empty" => z = right
        /\ right.tag = "Empty" => z = left

\* C17: for all trees left and right that are search-ordered and
\* heap-ordered, every item of left below every item of right (the two
\* parts unzip cuts a reachable tree into), zip2(left, right) holds exactly
\* the items of both at their ranks, is search-ordered and heap-ordered, has
\* the root rank max(rank(left), rank(right)) with -1 for the empty tree, and
\* is the other argument when one argument is empty.
C17_Zip2Merges ==
    /\ ~IsAbort(tree)
    /\ \A key \in Keys :
          /\ ~IsAbort(unzip(tree, key))
          /\ ZipJoins(unzip(tree, key).left, unzip(tree, key).right)

C17_Witness ==
    /\ ~IsAbort(tree)
    /\ \E key \in Items \ ctrl :
          LET uz == unzip(tree, key)
          IN  /\ uz.left.tag = "NonEmpty"
              /\ uz.right.tag = "NonEmpty"
              /\ uz.left.rank = uz.right.rank
              /\ ZipJoins(uz.left, uz.right)
    /\ \E key \in ctrl :
          LET uz == unzip(tree, key)
          IN  /\ uz.left.tag = "NonEmpty"
              /\ uz.right.tag = "NonEmpty"
              /\ uz.left.rank < uz.right.rank
              /\ ZipJoins(uz.left, uz.right)
    /\ \E key \in ctrl :
          LET uz == unzip(tree, key)
          IN  /\ uz.left.tag = "NonEmpty"
              /\ uz.right.tag = "NonEmpty"
              /\ uz.left.rank > uz.right.rank
              /\ ZipJoins(uz.left, uz.right)
    /\ \E key \in Keys : unzip(tree, key).left.tag = "Empty"

\* C18: no sequence of insert, delete and has from the empty tree aborts: the
\* tree is never Abort (remove_n_max with n = 0 or n > K, remove_min on a
\* vertex without item and the unwrap in split all yield Abort, and every
\* caller hands it on), the next insert or delete of any item returns a
\* tree, and has returns a boolean for every key.
C18_NoAbort ==
    /\ ~IsAbort(tree)
    /\ \A x \in Items : \A r \in Ranks : ~IsAbort(insert(tree, x, r))
    /\ \A x \in Keys : ~IsAbort(delete(tree, x))
    /\ \A k \in Keys : has(tree, k) \in BOOLEAN

C18_Witness ==
    /\ ~IsAbort(tree)
    /\ HasLongSet(tree)
    /\ Height(tree) >= 2
    /\ \E x \in ctrl : delete(tree, x).tag = "NonEmpty"
    /\ \E k \in Keys : has(tree, k)
    /\ \E k \in Keys : ~has(tree, k)

\* C19: insert_min on a k-list with an item that is not below every item of
\* the list aborts and never returns a k-list.  (insert_min compares
\* nothing: on the list holding 5 it stores 7 in the next free slot.)
C19_InsertMinAbortsOnNonMinimum ==
    ka.tag = "NonEmpty" =>
        \A x \in KItems :
            x >= get_min(ka.s) => IsAbort(insert_min(ka.s, <<x, GEmpty>>))

\* The abstract shape of a tree: the node's rank, its items in ascending
\* order each with the shape of its left subtree, and the right subtree's.
RECURSIVE Shape(_)
Shape(t) ==
    IF t.tag = "Empty" THEN GEmpty
    ELSE LET ps == pairs_ascending(t.set)
         IN  [rank |-> t.rank,
              pairs |-> [i \in 1..Len(ps) |-> <<ps[i][1], Shape(ps[i][2])>>],
              right |-> Shape(t.right)]

RECURSIVE ControlSet_Shape(_)
ControlSet_Shape(t) ==
    IF t.tag = "Empty" THEN GEmpty
    ELSE LET ps == ControlSet_pairs_ascending(t.set)
         IN  [rank |-> t.rank,
              pairs |-> [i \in 1..Len(ps) |->
                           <<ps[i][1], ControlSet_Shape(ps[i][2])>>],
              right |-> ControlSet_Shape(t.right)]

\* C20: after every insert/delete sequence the tree over the ControlSet and
\* the tree over the k-list have the same shape - node ranks, ascending items
\* of each node, left and right subtrees - and has agrees on every key.
C20_SameShape ==
    /\ ~IsAbort(tree)
    /\ ~IsAbort(ctree)
    /\ Shape(tree) = ControlSet_Shape(ctree)
    /\ \A k \in Keys : has(tree, k) = ControlSet_has(ctree, k)

C20_Witness ==
    /\ ~IsAbort(tree)
    /\ ~IsAbort(ctree)
    /\ Height(tree) >= 2
    /\ HasLongSet(tree)
    /\ ctree.tag = "NonEmpty"
    /\ ControlSet_len(ctree.set) > K
    /\ \E i \in 1..ControlSet_len(ctree.set) : ctree.set.vec[i][2].tag = "NonEmpty"
    /\ Shape(tree) = ControlSet_Shape(ctree)

(***************************************************************************)
(* The worked example: from_descending([9, 7, 5, 3, 1]) split at 4.        *)
(***************************************************************************)
ExampleList == from_descending(<<9, 7, 5, 3, 1>>)

\* split(4) of the example list leaves 3, 1 on the left, nothing in the
\* middle and 9, 7, 5 on the right.
ExampleSplitParts(sp) ==
    /\ ~IsAbort(sp)
    /\ sp.left.tag = "NonEmpty"
    /\ StoredItems(sp.left.s) = <<3, 1>>
    /\ IsNone(sp.mid)
    /\ sp.right.tag = "NonEmpty"
    /\ StoredItems(sp.right.s) = <<9, 7, 5>>

\* C21 as stated: for s = from_descending([9, 7, 5, 3, 1]) with K = 3,
\* split(4) returns left [3, 1], no middle and right [9, 7, 5], and
\* join(right_result, left_result), the arguments in that order, is s.
C21_JoinRightLeftIsOriginal ==
    ka = SetNonEmpty(ExampleList) =>
        LET sp == split(ka.s, 4)
        IN  /\ ExampleSplitParts(sp)
            /\ join(sp.right.s, sp.left.s) = ka.s

\* C21, amended: for s = from_descending([9, 7, 5, 3, 1]) with K = 3,
\* split(4) returns left [3, 1], no middle and right [9, 7, 5], and
\* join(left_result, right_result) - the lesser items first, as join's
\* signature join(left, right) has them - is s.
C21_JoinLeftRightIsOriginal ==
    ka = SetNonEmpty(ExampleList) =>
        LET sp == split(ka.s, 4)
        IN  /\ ExampleSplitParts(sp)
            /\ join(sp.left.s, sp.right.s) = ka.s

C21_Witness ==
    /\ ka = SetNonEmpty(ExampleList)
    /\ ExampleSplitParts(split(ka.s, 4))
    /\ join(split(ka.s, 4).left.s, split(ka.s, 4).right.s) = ExampleList
    /\ StoredItems(join(split(ka.s, 4).right.s, split(ka.s, 4).left.s))
          = <<3, 1, 9, 7, 5>>

(***************************************************************************)
(* The statistics.                                                         *)
(***************************************************************************)
\* The sum of a rank distribution's entries.
RECURSIVE SumOfEntries(_, _)
SumOfEntries(ranks, D) ==
    IF D = {} THEN 0
    ELSE LET r == CHOOSE q \in D : TRUE
         IN  ranks[r] + SumOfEntries(ranks, D \ {r})

\* C22: for the tree after every sequence of inserts, gtree_stats returns
\* item_count equal to the size of the control set, least_item and
\* greatest_item equal to its minimum and maximum (None for the empty
\* tree), gnode_height 0 and rank -1 for the empty tree, and a rank
\* distribution whose entry for each rank is the number of items whose
\* current rank it is (no entry: no such item), the entries summing to
\* item_count.
C22_StatsMatchCtrl ==
    LET st == gtree_stats(tree)[1]
        ranks == gtree_stats(tree)[2]
    IN  /\ st.item_count = Cardinality(ctrl)
        /\ st.least_item = IF ctrl = {} THEN NoneV ELSE Some(MinOf(ctrl))
        /\ st.greatest_item = IF ctrl = {} THEN NoneV ELSE Some(MaxOf(ctrl))
        /\ tree.tag = "Empty" => st.gnode_height = 0 /\ st.rank = -1
        /\ DOMAIN ranks \subseteq Ranks
        /\ \A r \in Ranks :
              LET count == Cardinality({x \in ctrl : rk[x] = r})
              IN  IF r \in DOMAIN ranks THEN ranks[r] = count ELSE count = 0
        /\ SumOfEntries(ranks, DOMAIN ranks) = st.item_count

C22_Witness ==
    /\ Height(tree) >= 2
    /\ HasLongSet(tree)
    /\ Cardinality(DOMAIN gtree_stats(tree)[2]) >= 2
    /\ \E r \in DOMAIN gtree_stats(tree)[2] : gtree_stats(tree)[2][r] >= 3
    /\ gtree_stats(tree)[1].item_count = Cardinality(ctrl)
    /\ gtree_stats(tree)[1].gnode_count >= 2
    /\ gtree_stats(tree)[1].least_item = Some(MinOf(ctrl))

\* C23: for every G-tree value, among them trees that violate the search
\* order below the root, gtree_stats reports is_search_tree = true exactly
\* when the in-order traversal of the tree is strictly ascending.
C23_IsSearchTreeIffAscending ==
    ~IsAbort(tree) =>
        (gtree_stats(tree)[1].is_search_tree <=> StrictlyAscending(InOrder(tree)))

(***************************************************************************)
(* The preconditions of the inner set's operations at the tree core's      *)
(* calls.  Each predicate follows the recursion of the function it is      *)
(* named after and holds when every insert_min and join call made on the   *)
(* way is within its precondition.                                         *)
(***************************************************************************)
\* insert_min(new_min) on the Set s: the item is below every item of s.
InsertMinWithin(s, item) ==
    /\ s.tag # "Abort"
    /\ s.tag = "NonEmpty" => \A x \in ItemsOf(s.s) : item < x

\* join(left, right): every item of left is below every item of right.
JoinWithin(left, right) ==
    \A x \in ItemsOf(left), y \in ItemsOf(right) : x < y

\* update_leftmost: other_pairs.insert_min((leftmost_item, leftmost))
update_leftmost_calls_within(node) ==
    LET rm == remove_min(node.set)
    IN  /\ ~IsAbort(rm)
        /\ InsertMinWithin(rm.rest, rm.min[1])

\* unzip: r_remaining.insert_min((r_leftmost_item, right))
RECURSIVE unzip_calls_within(_, _)
unzip_calls_within(t, key) ==
    IF t.tag = "Empty" THEN TRUE
    ELSE
      LET sp == split(t.set, key)
      IN  IF IsAbort(sp) THEN FALSE
          ELSE IF IsSome(sp.mid) THEN TRUE
          ELSE IF sp.right.tag = "Empty" THEN unzip_calls_within(t.right, key)
          ELSE LET rm == remove_min(sp.right.s)
               IN  /\ ~IsAbort(rm)
                   /\ unzip_calls_within(rm.min[2], key)
                   /\ InsertMinWithin(rm.rest, rm.min[1])

\* zip2: update_leftmost(r, zipped) where l.rank < r.rank; where the ranks
\* are equal r_others.insert_min((r_leftmost_item, zipped)) and
\* join(&l.set, &right_set).
RECURSIVE zip2_calls_within(_, _)
zip2_calls_within(left, right) ==
    IF left.tag = "Empty" \/ right.tag = "Empty" THEN TRUE
    ELSE IF left.rank < right.rank
    THEN LET rm == remove_min(right.set)
         IN  /\ ~IsAbort(rm)
             /\ zip2_calls_within(left, rm.min[2])
             /\ update_leftmost_calls_within(right)
    ELSE IF left.rank > right.rank
    THEN zip2_calls_within(left.right, right)
    ELSE LET rm == remove_min(right.set)
         IN  /\ ~IsAbort(rm)
             /\ zip2_calls_within(left.right, rm.min[2])
             /\ InsertMinWithin(rm.rest, rm.min[1])
             /\ JoinWithin(left.set,
                           Set_insert_min(rm.rest,
                                          <<rm.min[1], zip2(left.right, rm.min[2])>>))

\* zip3: zip2(&zip2(&left, &mid), &right)
zip3_calls_within(left, item, rank, right) ==
    LET mid == GNonEmpty(singleton(<<item, GEmpty>>), GEmpty, rank)
    IN  /\ zip2_calls_within(left, mid)
        /\ zip2_calls_within(zip2(left, mid), right)

\* C24: on every tree built by insert and delete, every insert_min call the
\* tree core makes (in unzip, update_leftmost and zip2's equal-rank case)
\* passes an item strictly below every item of the receiving set, and every
\* join call of zip2's equal-rank case has max(left) < min(right): in
\* unzip at any key, in the zip2 of delete and in the zip3 of insert with
\* any rank.
C24_CoreKeepsPreconditions ==
    ~IsAbort(tree) =>
        \A key \in Keys :
            LET uz == unzip(tree, key)
            IN  /\ ~IsAbort(uz)
                /\ unzip_calls_within(tree, key)
                /\ zip2_calls_within(uz.left, uz.right)
                /\ \A rank \in Ranks : zip3_calls_within(uz.left, key, rank, uz.right)

\* A delete whose zip2 joins two sets of equal rank, the right one of
\* several items; an unzip that puts the least item back into a non-empty
\* remainder.
C24_Witness ==
    /\ tree.tag = "NonEmpty"
    /\ \E key \in ctrl :
          LET uz == unzip(tree, key)
          IN  /\ uz.left.tag = "NonEmpty"
              /\ uz.right.tag = "NonEmpty"
              /\ uz.left.rank = uz.right.rank
              /\ remove_min(uz.right.set).rest.tag = "NonEmpty"
              /\ zip2_calls_within(uz.left, uz.right)
    /\ \E key \in Keys \ ctrl :
          LET sp == split(tree.set, key)
          IN  /\ IsNone(sp.mid)
              /\ sp.right.tag = "NonEmpty"
              /\ remove_min(sp.right.s).rest.tag = "NonEmpty"
              /\ remove_min(sp.right.s).min[2].tag = "NonEmpty"
              /\ unzip_calls_within(tree, key)

(***************************************************************************)
(* remove_n_max, the helper of split and join.                             *)
(***************************************************************************)
\* remove_n_max(n) on kl takes the n greatest items, or all there are.
RemovesGreatest(kl, n) ==
    LET r == remove_n_max(kl, n)
        items == StoredItems(kl)
        m == Len(items)
        taken == IF n < m THEN n ELSE m
    IN  /\ ~IsAbort(r)
        /\ \A i \in Idx :
              IF i < taken
              THEN IsSome(r.removed[i]) /\ r.removed[i].val[1] = items[i + 1]
              ELSE IsNone(r.removed[i])
        /\ IF m <= n THEN IsNone(r.rest)
           ELSE /\ IsSome(r.rest)
                /\ KListValid(SetNonEmpty(r.rest.val))
                /\ StoredItems(r.rest.val) = SubSeq(items, n + 1, m)

\* C25: for every valid k-list with m items and every n in 1..K,
\* remove_n_max(n) returns an array whose first min(n, m) slots hold the
\* min(n, m) greatest items in descending order, the other slots empty, and a
\* remainder that is absent when m <= n and otherwise a valid k-list holding
\* exactly the remaining m - n items in order.
C25_RemoveNMax ==
    set_klist.tag = "NonEmpty" =>
        /\ KListValid(set_klist)
        /\ \A n \in 1..K : RemovesGreatest(set_klist.s, n)

\* Five items in two vertices, two removed: the head vertex is refilled from
\* the second one, which is used up.
C25_Witness ==
    /\ set_klist.tag = "NonEmpty"
    /\ Len(StoredItems(set_klist.s)) = 5
    /\ RemovesGreatest(set_klist.s, 2)
    /\ IsNone(remove_n_max(set_klist.s, 2).rest.val.next)
    /\ IsSome(remove_n_max(set_klist.s, 1).rest.val.next)
    /\ RemovesGreatest(set_klist.s, K)

(***************************************************************************)
(* Ranks of parents and children.                                          *)
(***************************************************************************)
\* Every child's root rank is below the node's, and so in every child.
RECURSIVE StrictlyHeapOrdered(_)
StrictlyHeapOrdered(t) ==
    \/ t.tag = "Empty"
    \/ \A c \in Children(t) : RankOf(c) < t.rank /\ StrictlyHeapOrdered(c)

\* C26: in every tree over the k-list that insert and delete build, no node
\* has a left or right child whose root rank equals its own rank, whether or
\* not the node's inner set is at physical capacity.
C26_NoEqualRankChild ==
    /\ ~IsAbort(tree)
    /\ StrictlyHeapOrdered(tree)

\* A root whose inner set is at physical capacity, with a child one rank
\* below it, built by zipping items of equal rank into one node.
C26_Witness ==
    /\ tree.tag = "NonEmpty"
    /\ len(tree.set) = item_slot_count(tree.set)
    /\ \E c \in Children(tree) : c.tag = "NonEmpty" /\ c.rank = tree.rank - 1
    /\ Height(tree) >= 2
    /\ StrictlyHeapOrdered(tree)

(***************************************************************************)
(* One rank per item.                                                      *)
(***************************************************************************)
\* The tree holds the items of S and no others, each once, the item x in a
\* node of rank m[x].
HoldsEachOnce(t, S, m) ==
    /\ ~IsAbort(t)
    /\ gtree_stats_(t).item_count = Cardinality(S)
    /\ ItemRanks(t) = {<<x, m[x]>> : x \in S}

\* C27: in every tree built by inserts, items inserted again among them, each
\* item of the set occurs exactly once, in a node whose rank is the rank of
\* its most recent insert - so inserting a present item again with a
\* different rank leaves the set of items unchanged and moves the item to a
\* node of the new rank - and it gives the tree that deleting the item and
\* then inserting it with the new rank gives.
C27_OneRankPerItem ==
    /\ HoldsEachOnce(tree, ctrl, rk)
    /\ \A x \in ctrl : \A r \in Ranks \ {rk[x]} :
          insert(tree, x, r) = insert(delete(tree, x), x, r)

\* An item sharing its node with others is inserted again one rank higher
\* and one rank lower.
C27_Witness ==
    /\ Height(tree) >= 2
    /\ HoldsEachOnce(tree, ctrl, rk)
    /\ \E x, y \in ctrl :
          /\ x # y
          /\ rk[x] = rk[y]
          /\ rk[x] + 1 \in Ranks
          /\ rk[x] - 1 \in Ranks
          /\ <<x, rk[x] + 1>> \in ItemRanks(insert(tree, x, rk[x] + 1))
          /\ <<x, rk[x]>> \notin ItemRanks(insert(tree, x, rk[x] + 1))
          /\ <<x, rk[x] - 1>> \in ItemRanks(insert(tree, x, rk[x] - 1))
          /\ insert(tree, x, rk[x] - 1) # tree

(***************************************************************************)
(* Items and their left subtrees.                                          *)
(***************************************************************************)
\* Every pair of the k-list holds the leaf of its item as left subtree.
RECURSIVE PairedWithLeaves(_)
PairedWithLeaves(kl) ==
    /\ \A i \in Idx : IsSome(kl.data[i]) => kl.data[i].val[2] = Leaf(kl.data[i].val[1])
    /\ IsSome(kl.next) => PairedWithLeaves(kl.next.val)

SetPairedWithLeaves(s) ==
    /\ s.tag # "Abort"
    /\ s.tag = "NonEmpty" => PairedWithLeaves(s.s)

\* The operations of the k-list on kl, whose pairs hold the leaves of their
\* items, return lists and pairs that do.
KeepsPairs(kl) ==
    /\ \A x \in 0..(MinOf(ItemsOf(kl)) - 1) :
          LET im == insert_min(kl, <<x, Leaf(x)>>)
          IN  PairedWithLeaves(im) /\ ItemsOf(im) = ItemsOf(kl) \cup {x}
    /\ LET rm == remove_min(kl)
       IN  /\ ~IsAbort(rm)
           /\ rm.min = <<MinOf(ItemsOf(kl)), Leaf(MinOf(ItemsOf(kl)))>>
           /\ SetPairedWithLeaves(rm.rest)
    /\ \A n \in 1..K :
          LET r == remove_n_max(kl, n)
          IN  /\ ~IsAbort(r)
              /\ \A i \in Idx : IsSome(r.removed[i]) =>
                    r.removed[i].val[2] = Leaf(r.removed[i].val[1])
              /\ IsSome(r.rest) => PairedWithLeaves(r.rest.val)
    /\ \A key \in KKeys :
          LET sp == split(kl, key)
          IN  /\ ~IsAbort(sp)
              /\ SetPairedWithLeaves(sp.left)
              /\ SetPairedWithLeaves(sp.right)
              /\ sp.mid = IF key \in ItemsOf(kl) THEN Some(Leaf(key)) ELSE NoneV
              /\ (sp.left.tag = "NonEmpty" /\ sp.right.tag = "NonEmpty") =>
                    LET j == join(sp.left.s, sp.right.s)
                    IN  /\ ~IsAbort(j)
                        /\ PairedWithLeaves(j)
                        /\ ItemsOf(j) = ItemsOf(kl) \ {key}

Mid(item, rank) == GNonEmpty(singleton(<<item, GEmpty>>), GEmpty, rank)

\* The tree unzipped at key1 and its right part at key2: three trees, the
\* items of each below those of the next.
ThreeParts(t, key1, key2) ==
    LET uz1 == unzip(t, key1)
        uz2 == unzip(uz1.right, key2)
    IN  [a |-> uz1.left, b |-> uz2.left, c |-> uz2.right]

Indices == 0..(MaxKItem + 1) \cup {UsizeModulus - 1}

\* The pair of the (index + 1)-th least item of the k-list, if there is one.
PairAt(kl, index) ==
    LET items == StoredItems(kl)
    IN  IF index < Len(items)
        THEN Some(<<items[Len(items) - index], GEmpty>>)
        ELSE NoneV

\* C30: get_pair_by_index(i) on a k-list, and on the control set of the
\* same items, returns the pair of the (i + 1)-th least item for every
\* 0 <= i < len, and for every i >= len returns None and does not abort,
\* in a build with overflow checks and in a build without.
C30_IndexPastEndIsNone ==
    (set_klist.tag = "NonEmpty" /\ set_ctrl.tag = "NonEmpty") =>
        \A index \in Indices : \A overflow_checks \in BOOLEAN :
            /\ get_pair_by_index_built(set_klist.s, index, overflow_checks)
                  = PairAt(set_klist.s, index)
            /\ ControlSet_get_pair_by_index_built(set_ctrl.s, index, overflow_checks)
                  = PairAt(set_klist.s, index)

====
